---- MODULE Spec2Model ----
(***************************************************************************)
(* Activation keys of src/activation_key_manager.py: a 10-byte record      *)
(* (created_at, expires_at, flag byte, filler byte), a 10-byte truncated   *)
(* HMAC tag, base-32 text with the "AKT" suffix in 7 groups of 5.          *)
(*                                                                         *)
(* Bytes are integers 0..255, byte strings are sequences of bytes, and a   *)
(* Python str is a sequence of one-character strings.  TLC's integers are  *)
(* 32-bit signed, so the timestamps the model draws are below 2^31; the    *)
(* byte layout is the 4-byte big-endian layout of the source.              *)
(***************************************************************************)
EXTENDS Integers, Sequences, FiniteSets, TLC

\* ------------------------------------------------------------ constants

ONE_YEAR_SECONDS == 365 * 24 * 60 * 60

DATA_SIZE == 10

SIG_SIZE == 10

TOTAL_SIZE == DATA_SIZE + SIG_SIZE

\* The three filler characters appended after the base-32 text.
SUFFIX == <<"A", "K", "T">>

\* len(raw) expected by decode_novel_key, and the width of one group.
KEY_CHARS == 35

GROUP == 5

\* ------------------------------------------------------------ helpers

Min(a, b) == IF a < b THEN a ELSE b

Pow2(n) == 2 ^ n

\* seq[lo:hi] of Python (0-based, hi excluded, clipped to the sequence).
Slice(seq, lo, hi) == SubSeq(seq, lo + 1, Min(hi, Len(seq)))

\* ------------------------------------------------------- int <-> bytes

\* int.to_bytes(4, "big", signed=False)
to_bytes4(x) ==
    << (x \div Pow2(24)) % 256, (x \div Pow2(16)) % 256, (x \div Pow2(8)) % 256, x % 256 >>

\* int.from_bytes(b, "big", signed=False) of a 4-byte slice
from_bytes4(b) ==
    b[1] * Pow2(24) + b[2] * Pow2(16) + b[3] * Pow2(8) + b[4]

\* ------------------------------------------------------------- record

\* _pack_data; the two secrets.randbits draws are parameters.
_pack_data(created_at, expires_at, agent_deployed, random_7bits, filler_byte) ==
    LET created_bytes == to_bytes4(created_at)
        expires_bytes == to_bytes4(expires_at)
        agent_bit     == IF agent_deployed THEN 1 ELSE 0
        flag_byte     == (random_7bits * 2) + agent_bit
    IN  created_bytes \o expires_bytes \o << flag_byte, filler_byte >>

\* An unpack that reads the flag from bit 1 of the flag byte.
_unpack_data_bit1(data_block) ==
    IF Len(data_block) # 10
    THEN [error |-> "Data block must be 10 bytes"]
    ELSE [error |-> "",
          created_at |-> from_bytes4(Slice(data_block, 0, 4)),
          expires_at |-> from_bytes4(Slice(data_block, 4, 8)),
          agent_deployed |-> ((data_block[9] \div 2) % 2 = 1)]

\* _unpack_data
_unpack_data(data_block) ==
    IF Len(data_block) # 10
    THEN [error |-> "Data block must be 10 bytes"]
    ELSE [error |-> "",
          created_at |-> from_bytes4(Slice(data_block, 0, 4)),
          expires_at |-> from_bytes4(Slice(data_block, 4, 8)),
          agent_deployed |-> (data_block[9] % 2 = 1)]

\* ---------------------------------------------------------------- MAC

\* server_secret.encode("utf-8") of the secrets the model uses, as bytes:
\* "SUPER_SECRET_123", the secret the server holds, and "s3cret".
SERVER_SECRET == << 83, 85, 80, 69, 82, 95, 83, 69, 67, 82, 69, 84, 95, 49, 50, 51 >>

OtherSecret == << 115, 51, 99, 114, 101, 116 >>

Secrets == {SERVER_SECRET, OtherSecret}

\* A keyed 32-byte digest standing for hmac.new(key, msg, sha256).digest():
\* deterministic, and every byte of the key and of the message reaches
\* every byte of the digest.  The state is 16 bits wide (modulus 65521,
\* prime), so two messages that differ in one byte never share a digest.
RECURSIVE Absorb(_, _, _)
Absorb(acc, bytes, i) ==
    IF i > Len(bytes) THEN acc
    ELSE Absorb((acc * 31 + bytes[i] + 1) % 65521, bytes, i + 1)

HmacSha256(key, msg) ==
    LET inner == Absorb(Absorb(7, key, 1), msg, 1)
        outer == Absorb(Absorb(11, key, 1), << inner % 256, inner \div 256 >>, 1)
    IN  [i \in 1..32 |->
            CASE i = 1 -> inner % 256
              [] i = 2 -> inner \div 256
              [] OTHER -> ((outer + i) * (2 * i + 1)) % 256]

\* _compute_partial_signature
_compute_partial_signature(data_block, server_secret) ==
    LET full_digest == HmacSha256(server_secret, data_block)
    IN  Slice(full_digest, 0, SIG_SIZE)

\* ------------------------------------------------------------ base 32

B32Alphabet ==
    << "A", "B", "C", "D", "E", "F", "G", "H", "I", "J", "K", "L", "M",
       "N", "O", "P", "Q", "R", "S", "T", "U", "V", "W", "X", "Y", "Z",
       "2", "3", "4", "5", "6", "7" >>

B32Chars == {B32Alphabet[i] : i \in 1..32}

\* _b32rev: the value of a base-32 digit.
B32Index == [c \in B32Chars |-> (CHOOSE i \in 1..32 : B32Alphabet[i] = c) - 1]

B32Rev(c) == B32Index[c]

\* A byte sequence read at a 0-based index, zero beyond its end.
ByteAt(s, i) == IF i < Len(s) THEN s[i + 1] ELSE 0

\* base64.b32encode: 5 bits per character, big-endian, the last quantum
\* zero-padded and its unused characters replaced by "=".
b32encode(s) ==
    LET leftover == Len(s) % 5
        padded   == IF leftover = 0 THEN Len(s) ELSE Len(s) + (5 - leftover)
        nchars   == (padded \div 5) * 8
        Digit(j) == LET bit  == 5 * j
                        pair == ByteAt(s, bit \div 8) * 256 + ByteAt(s, bit \div 8 + 1)
                    IN  (pair \div Pow2(11 - (bit % 8))) % 32
        npad     == CASE leftover = 1 -> 6
                      [] leftover = 2 -> 4
                      [] leftover = 3 -> 3
                      [] leftover = 4 -> 1
                      [] OTHER -> 0
    IN  [j \in 1..nchars |->
            IF j > nchars - npad THEN "=" ELSE B32Alphabet[Digit(j - 1) + 1]]

\* s.rstrip("=")
RECURSIVE RStripPad(_)
RStripPad(s) ==
    IF Len(s) > 0 /\ s[Len(s)] = "=" THEN RStripPad(SubSeq(s, 1, Len(s) - 1)) ELSE s

\* base64.b32decode(s) with casefold=False, map01=None: the bytes, or the
\* message of the binascii.Error (a ValueError) it raises.
b32decode(s) ==
    LET l        == Len(s)
        stripped == RStripPad(s)
        padchars == l - Len(stripped)
        Val(j)   == IF j < Len(stripped) THEN B32Rev(stripped[j + 1]) ELSE 0
        Byte(i)  == LET bit  == 8 * i
                        j    == bit \div 5
                        trip == Val(j) * 1024 + Val(j + 1) * 32 + Val(j + 2)
                    IN  (trip \div Pow2(7 - (bit % 5))) % 256
        quanta   == (Len(stripped) + 7) \div 8
        leftover == (43 - 5 * padchars) \div 8
        nbytes   == IF padchars > 0 /\ quanta > 0
                    THEN 5 * (quanta - 1) + leftover
                    ELSE 5 * quanta
    IN  IF l % 8 # 0 THEN [error |-> "Incorrect padding"]
        ELSE IF \E j \in 1..Len(stripped) : stripped[j] \notin B32Chars
        THEN [error |-> "Non-base32 digit found"]
        ELSE IF padchars \notin {0, 1, 3, 4, 6} THEN [error |-> "Incorrect padding"]
        ELSE [error |-> "", bytes |-> [i \in 1..nbytes |-> Byte(i - 1)]]

\* --------------------------------------------------------------- keys

\* "-".join(chunks)
RECURSIVE JoinDash(_)
JoinDash(chunks) ==
    IF Len(chunks) = 0 THEN << >>
    ELSE IF Len(chunks) = 1 THEN chunks[1]
    ELSE chunks[1] \o << "-" >> \o JoinDash(Tail(chunks))

\* pretty_key.replace("-", "")
StripDashes(pretty_key) == SelectSeq(pretty_key, LAMBDA c : c # "-")

\* chunks = [final_35[i : i + 5] for i in range(0, 35, 5)], dash-joined.
Chunked(final_35) ==
    JoinDash([n \in 1..(KEY_CHARS \div GROUP) |->
                 Slice(final_35, (n - 1) * GROUP, (n - 1) * GROUP + GROUP)])

\* An encode that forgets the "AKT" suffix.
encode_novel_key_nosuffix(created_at, expires_at, agent_deployed, server_secret, random_7bits, filler_byte) ==
    LET data_block == _pack_data(created_at, expires_at, agent_deployed, random_7bits, filler_byte)
        sig_block  == _compute_partial_signature(data_block, server_secret)
        combined   == data_block \o sig_block
        b32_str    == b32encode(combined)
    IN  Chunked(b32_str)

\* encode_novel_key; the two random draws of _pack_data are parameters.
encode_novel_key(created_at, expires_at, agent_deployed, server_secret, random_7bits, filler_byte) ==
    LET data_block == _pack_data(created_at, expires_at, agent_deployed, random_7bits, filler_byte)
        sig_block  == _compute_partial_signature(data_block, server_secret)
        combined   == data_block \o sig_block
        b32_str    == b32encode(combined)
        final_35   == b32_str \o SUFFIX
    IN  Chunked(final_35)

\* The messages of the ValueErrors decode_novel_key raises itself.
BadLength == "Expected 35 characters with dashes removed"

SigMismatch == "Signature mismatch (tampered or invalid)"

KeyExpired == "Key has expired"

\* A comparison that looks only at the first nine bytes of the tags.
compare_digest_short(sig_block, expected_sig) ==
    Slice(sig_block, 0, SIG_SIZE - 1) = Slice(expected_sig, 0, SIG_SIZE - 1)

\* hmac.compare_digest(sig_block, expected_sig)
compare_digest(sig_block, expected_sig) == sig_block = expected_sig

\* An expiry test that lets a key live one second longer.
IsExpiredLate(now, expires_at) == now > expires_at + 1

\* An expiry test that ends a key one second early.
IsExpiredEarly(now, expires_at) == now >= expires_at

\* now > expires_at
IsExpired(now, expires_at) == now > expires_at

\* A parse that also insists on the "AKT" suffix.
ParseKeyStrict(pretty_key) ==
    LET raw      == StripDashes(pretty_key)
        real_b32 == Slice(raw, 0, Len(raw) - 3)
        decoded  == b32decode(real_b32)
    IN  IF Len(raw) # KEY_CHARS THEN [error |-> BadLength]
        ELSE IF Slice(raw, Len(raw) - 3, Len(raw)) # SUFFIX THEN [error |-> "Bad suffix"]
        ELSE IF decoded.error # "" THEN [error |-> decoded.error]
        ELSE IF Len(decoded.bytes) # TOTAL_SIZE THEN [error |-> "Decoded length mismatch"]
        ELSE decoded

\* The first steps of decode_novel_key: the 20 bytes under a key string, or
\* the message of the ValueError raised on the way.
ParseKey(pretty_key) ==
    LET raw      == StripDashes(pretty_key)
        real_b32 == Slice(raw, 0, Len(raw) - 3)
        decoded  == b32decode(real_b32)
    IN  IF Len(raw) # KEY_CHARS THEN [error |-> BadLength]
        ELSE IF decoded.error # "" THEN [error |-> decoded.error]
        ELSE IF Len(decoded.bytes) # TOTAL_SIZE THEN [error |-> "Decoded length mismatch"]
        ELSE decoded

\* decode_novel_key; int(time.time()) is the parameter now.  The result is
\* the returned dict with error = "", or the message of the ValueError.
decode_novel_key(pretty_key, server_secret, now) ==
    LET parsed   == ParseKey(pretty_key)
        combined == parsed.bytes
        data_block   == Slice(combined, 0, DATA_SIZE)
        sig_block    == Slice(combined, DATA_SIZE, Len(combined))
        expected_sig == _compute_partial_signature(data_block, server_secret)
        info         == _unpack_data(data_block)
    IN  IF parsed.error # "" THEN [error |-> parsed.error]
        ELSE IF ~ compare_digest(sig_block, expected_sig) THEN [error |-> SigMismatch]
        ELSE IF info.error # "" THEN [error |-> info.error]
        ELSE IF IsExpired(now, info.expires_at) THEN [error |-> KeyExpired]
        ELSE info

\* An issue whose validity window is a year of minutes.
create_novel_activation_key_minutes(server_secret, now, random_7bits, filler_byte) ==
    LET expires == now + 365 * 24 * 60
        agent   == FALSE
    IN  encode_novel_key(now, expires, agent, server_secret, random_7bits, filler_byte)

\* create_novel_activation_key
create_novel_activation_key(server_secret, now, random_7bits, filler_byte) ==
    LET expires == now + ONE_YEAR_SECONDS
        agent   == FALSE
    IN  encode_novel_key(now, expires, agent, server_secret, random_7bits, filler_byte)

\* A deploy that does not test the expiry of the key it is given.
set_agent_deployed_unchecked(novel_key, server_secret, now, random_7bits, filler_byte) ==
    LET info == decode_novel_key(novel_key, server_secret, 0)
    IN  IF info.error # "" THEN [error |-> info.error]
        ELSE [error |-> "",
              key |-> encode_novel_key(info.created_at, info.expires_at, TRUE,
                                       server_secret, random_7bits, filler_byte)]

\* A deploy that inverts the flag instead of setting it.
set_agent_deployed_flip(novel_key, server_secret, now, random_7bits, filler_byte) ==
    LET info == decode_novel_key(novel_key, server_secret, now)
    IN  IF info.error # "" THEN [error |-> info.error]
        ELSE [error |-> "",
              key |-> encode_novel_key(info.created_at, info.expires_at, ~ info.agent_deployed,
                                       server_secret, random_7bits, filler_byte)]

\* set_agent_deployed: the new key, or the error decode_novel_key raised.
set_agent_deployed(novel_key, server_secret, now, random_7bits, filler_byte) ==
    LET info == decode_novel_key(novel_key, server_secret, now)
    IN  IF info.error # "" THEN [error |-> info.error]
        ELSE [error |-> "",
              key |-> encode_novel_key(info.created_at, info.expires_at, TRUE,
                                       server_secret, random_7bits, filler_byte)]

\* A stop that stamps the new key with the current time.
set_agent_down_restamp(novel_key, server_secret, now, random_7bits, filler_byte) ==
    LET info == decode_novel_key(novel_key, server_secret, now)
    IN  IF info.error # "" THEN [error |-> info.error]
        ELSE [error |-> "",
              key |-> encode_novel_key(now, info.expires_at, FALSE,
                                       server_secret, random_7bits, filler_byte)]

\* set_agent_down
set_agent_down(novel_key, server_secret, now, random_7bits, filler_byte) ==
    LET info == decode_novel_key(novel_key, server_secret, now)
    IN  IF info.error # "" THEN [error |-> info.error]
        ELSE [error |-> "",
              key |-> encode_novel_key(info.created_at, info.expires_at, FALSE,
                                       server_secret, random_7bits, filler_byte)]

\* -------------------------------------------------------------- state

\* now:    the wall clock, int(time.time()).
\* issued: the keys produced so far, each with the secret and the fields it
\*         was made for (the arguments its encode_novel_key call was given)
\*         and the key its chain of Deploy/Stop calls started from (root).
\* res:    the last call: its operation, its input key, the secret it was
\*         given, the clock (at), and what it returned (error = "") or raised.
VARIABLES now, issued, res

vars == << now, issued, res >>

\* The most keys a behaviour of Spec holds.
MaxKeys == 3

\* The clock's first value, and the instants it moves through: a key made
\* at T0 is at its expires_at at T0 + ONE_YEAR_SECONDS, expired one later.
T0 == 1700000000

Times == {T0, T0 + ONE_YEAR_SECONDS, T0 + ONE_YEAR_SECONDS + 1}

\* The draws << secrets.randbits(7), secrets.randbits(8) >> the model takes.
Draws == { << 0, 0 >>, << 127, 255 >> }

\* Two strings that are no key of the server: one too short, and one of the
\* right shape whose 20 bytes are all zero (a forged tag).
ShortKey == << "A", "K", "T" >>

ForgedKey == JoinDash([n \in 1..7 |-> IF n < 7 THEN << "A", "A", "A", "A", "A" >>
                                       ELSE << "A", "A", "A", "K", "T" >>])

Garbage == {ShortKey, ForgedKey}

Entry(key, root, secret, created_at, expires_at, agent_deployed) ==
    [key |-> key, root |-> root, secret |-> secret, created_at |-> created_at,
     expires_at |-> expires_at, agent_deployed |-> agent_deployed]

\* The dict decode_novel_key returns for a key made for these fields.
Fields(e) ==
    [error |-> "", created_at |-> e.created_at, expires_at |-> e.expires_at,
     agent_deployed |-> e.agent_deployed]

Call(op, key, secret, how, out) ==
    [op |-> op, key |-> key, secret |-> secret, at |-> now, how |-> how, out |-> out]

NoTamper == [kind |-> "same", bit |-> 0]

IssuedKeys == {e.key : e \in issued}

EntryOf(k) == CHOOSE e \in issued : e.key = k

Init ==
    /\ now = T0
    /\ issued = {}
    /\ res = [op |-> "none"]

\* The clock moves on.
Tick(t) ==
    /\ t > now
    /\ now' = t
    /\ UNCHANGED << issued, res >>

\* create_novel_activation_key(server_secret)
Create(d) ==
    /\ Cardinality(issued) < MaxKeys
    /\ LET key == create_novel_activation_key(SERVER_SECRET, now, d[1], d[2])
       IN  /\ issued' = issued \cup {Entry(key, key, SERVER_SECRET,
                                           now, now + ONE_YEAR_SECONDS, FALSE)}
           /\ res' = Call("create", << >>, SERVER_SECRET, NoTamper,
                          [error |-> "", key |-> key])
    /\ UNCHANGED now

\* A call of set_agent_deployed (op = "deploy") or set_agent_down ("down")
\* on key k that ended with out: a raised error leaves no key behind, a
\* returned key joins the issued ones with k's timestamps and the flag.
Toggled(op, k, out, flag) ==
    /\ res' = Call(op, k, SERVER_SECRET, NoTamper, out)
    /\ IF out.error # "" THEN issued' = issued
       ELSE /\ Cardinality(issued) < MaxKeys
            /\ k \in IssuedKeys
            /\ issued' = issued \cup
                 {Entry(out.key, EntryOf(k).root, SERVER_SECRET,
                        EntryOf(k).created_at, EntryOf(k).expires_at, flag)}
    /\ UNCHANGED now

\* set_agent_deployed(novel_key, server_secret)
Deploy(k, d) ==
    Toggled("deploy", k, set_agent_deployed(k, SERVER_SECRET, now, d[1], d[2]), TRUE)

\* set_agent_down(novel_key, server_secret)
Down(k, d) ==
    Toggled("down", k, set_agent_down(k, SERVER_SECRET, now, d[1], d[2]), FALSE)

Next ==
    \/ \E t \in Times : Tick(t)
    \/ \E d \in Draws : Create(d)
    \/ \E k \in IssuedKeys \cup Garbage, d \in Draws : Deploy(k, d)
    \/ \E k \in IssuedKeys \cup Garbage, d \in Draws : Down(k, d)

Spec == Init /\ [][Next]_vars

\* ------------------------------------------------- the codec on its own

\* Timestamps and draws given to encode_novel_key directly.
MaxTime == (Pow2(30) - 1) + Pow2(30)

CreatedSet == {0, 16909060}

ExpiresSet == {now - 1, now, MaxTime}

CodecDraws == Draws \cup { << 85, 170 >> }

\* Bit i (1 = the first byte's top bit) of a byte string, inverted.
FlipBit(bytes, i) ==
    LET at == (i - 1) \div 8 + 1
        p  == Pow2(7 - ((i - 1) % 8))
        b  == bytes[at]
    IN  [bytes EXCEPT ![at] = IF (b \div p) % 2 = 1 THEN b - p ELSE b + p]

\* The 20 bytes under a key of the right shape.
KeyBytes(key) == b32decode(Slice(StripDashes(key), 0, 32)).bytes

\* A key with its last three non-separator characters replaced.
WithSuffix(key, sfx) ==
    LET n == Len(key)
        After(j) == Len(StripDashes(SubSeq(key, j + 1, n)))
    IN  [j \in 1..n |-> IF key[j] # "-" /\ After(j) < 3 THEN sfx[3 - After(j)] ELSE key[j]]

\* The same characters with the separators put elsewhere.
Regrouped(key, width) ==
    LET raw == StripDashes(key)
    IN  JoinDash([n \in 1..((Len(raw) + width - 1) \div width) |->
                     Slice(raw, (n - 1) * width, n * width)])

\* What a holder of key can hand to decode_novel_key instead of it.
Tampered(key, how) ==
    CASE how.kind = "same"    -> key
      [] how.kind = "flip"    -> Chunked(b32encode(FlipBit(KeyBytes(key), how.bit)) \o SUFFIX)
      [] how.kind = "suffix"  -> WithSuffix(key, << "Z", "=", "a" >>)
      [] how.kind = "nodash"  -> StripDashes(key)
      [] how.kind = "regroup" -> Regrouped(key, 7)
      [] how.kind = "short"   -> SubSeq(key, 1, Len(key) - 1)
      [] how.kind = "long"    -> key \o << "A" >>
      [] how.kind = "lower"   -> [key EXCEPT ![1] = "a"]
      [] how.kind = "pad"     -> [key EXCEPT ![38] = "="]

Hows ==
    {[kind |-> k, bit |-> 0] :
        k \in {"same", "suffix", "nodash", "regroup", "short", "long", "lower", "pad"}}
    \cup {[kind |-> "flip", bit |-> i] : i \in 1..(TOTAL_SIZE * 8)}

\* encode_novel_key(created_at, expires_at, agent_deployed, server_secret)
Encode(c, e, f, s, d) ==
    /\ res.op = "none"
    /\ LET key == encode_novel_key(c, e, f, s, d[1], d[2])
       IN  /\ issued' = {Entry(key, key, s, c, e, f)}
           /\ res' = Call("encode", << >>, s, NoTamper, [error |-> "", key |-> key])
    /\ UNCHANGED now

\* decode_novel_key(pretty_key, server_secret) of the encoded key or of a
\* string made from it.
Decode(how, s) ==
    /\ res.op = "encode"
    /\ LET k == Tampered(res.out.key, how)
       IN  res' = Call("decode", k, s, how, decode_novel_key(k, s, now))
    /\ UNCHANGED << now, issued >>

NextCodec ==
    \/ \E c \in CreatedSet, e \in ExpiresSet, f \in BOOLEAN, s \in Secrets, d \in CodecDraws :
          Encode(c, e, f, s, d)
    \/ \E how \in Hows, s \in Secrets : Decode(how, s)

SpecCodec == Init /\ [][NextCodec]_vars

\* ------------------------------------------------------ codec claims

\* The key Encode made (SpecCodec holds one).
Encoded == CHOOSE e \in issued : TRUE

\* The record and the tag under the string the last call was given.
ResRecord == Slice(ParseKey(res.key).bytes, 0, DATA_SIZE)

ResTag == Slice(ParseKey(res.key).bytes, DATA_SIZE, TOTAL_SIZE)

ResTagValid == ResTag = _compute_partial_signature(ResRecord, res.secret)

\* C1: round trip.  Decoding an encoded key under the secret it was encoded
\* with, at a time not after its expires_at, returns exactly the
\* created_at, expires_at and agent_deployed it was encoded from, whatever
\* the random flag bits and filler byte were.
C1_RoundTrip ==
    (res.op = "decode" /\ res.how.kind = "same" /\ res.secret = Encoded.secret
        /\ Encoded.expires_at >= now)
    => res.out = Fields(Encoded)

C1_Witness ==
    /\ res.op = "decode" /\ res.how.kind = "same" /\ res.secret = Encoded.secret
    /\ Encoded.expires_at = now /\ Encoded.agent_deployed /\ Encoded.created_at = 16909060
    /\ res.out = Fields(Encoded)

\* C2: a 20-byte payload whose tag is not the truncated MAC of its record
\* under the validating secret never yields fields: decode_novel_key raises
\* the signature mismatch.  That is the outcome for an encoded key with any
\* one of its 160 bits inverted, and for an encoded key validated under the
\* other secret.
C2_TagRejected ==
    res.op = "decode" =>
        /\ (ParseKey(res.key).error = "" /\ ~ ResTagValid) => res.out = [error |-> SigMismatch]
        /\ (res.how.kind = "flip" /\ res.secret = Encoded.secret)
              => res.out = [error |-> SigMismatch]
        /\ (res.how.kind = "same" /\ res.secret # Encoded.secret)
              => res.out = [error |-> SigMismatch]

C2_Witness ==
    /\ res.op = "decode" /\ res.how.kind = "flip" /\ res.how.bit = 72
    /\ res.secret = Encoded.secret /\ Encoded.expires_at > now
    /\ res.out = [error |-> SigMismatch]

\* The string the last call was given decodes to 20 bytes whose expires_at
\* is now - 1.
ResExpiredByOne ==
    /\ res.op = "decode"
    /\ ParseKey(res.key).error = ""
    /\ Slice(ResRecord, 4, 8) = to_bytes4(now - 1)

\* C3 as stated: a decodable key whose expires_at is now - 1 is reported
\* expired whether or not its tag is the right MAC.
C3_ExpiredWhateverTheTag == ResExpiredByOne => res.out = [error |-> KeyExpired]

\* C3, amended: a decodable key whose expires_at is now - 1 is reported
\* expired when its tag is the right MAC under the validating secret, and
\* is reported as a signature mismatch when it is not.
C3_ExpiredAfterTag ==
    ResExpiredByOne =>
        res.out = [error |-> IF ResTagValid THEN KeyExpired ELSE SigMismatch]

C3_Witness == ResExpiredByOne /\ ResTagValid /\ res.out = [error |-> KeyExpired]

\* Other suffixes and separator widths to compare a key string with.
SuffixSamples == { << "A", "K", "T" >>, << "Z", "Z", "Z" >>, << "=", "a", "1" >> }

GroupWidths == {1, 5, 35}

\* C10: decode_novel_key strips every separator, raises the length error
\* when other than 35 characters remain, and never looks at the last 3 of
\* them: a string that differs from the one given only in those 3
\* characters, or only in where its separators are, has the same outcome.
C10_SuffixAndDashesIgnored ==
    res.op = "decode" =>
        LET raw == StripDashes(res.key)
        IN  /\ Len(raw) # KEY_CHARS => res.out = [error |-> BadLength]
            /\ \A sfx \in SuffixSamples :
                  decode_novel_key(WithSuffix(res.key, sfx), res.secret, now) = res.out
            /\ \A w \in GroupWidths :
                  decode_novel_key(Regrouped(res.key, w), res.secret, now) = res.out

C10_Witness ==
    /\ res.op = "decode" /\ res.how.kind = "suffix"
    /\ res.key # Encoded.key /\ StripDashes(res.key)[35] = "a"
    /\ res.out = Fields(Encoded)

\* -------------------------------------------------- lifecycle claims

Toggles == {"deploy", "down"}

\* C4: set_agent_deployed and set_agent_down given a key that
\* decode_novel_key rejects (expired, undecodable or wrongly signed) raise
\* exactly the error decode_novel_key raises for it, and no key is made.
C4_FailureLeavesNoKey ==
    [][ (res'.op \in Toggles /\ << res, issued >>' # << res, issued >>) =>
           LET v == decode_novel_key(res'.key, res'.secret, now')
           IN  v.error # "" => (res'.out = [error |-> v.error] /\ issued' = issued) ]_vars

C4_Witness ==
    /\ res.op = "down" /\ res.key \in IssuedKeys
    /\ res.out = [error |-> KeyExpired]

\* C5: every key reached from a key by Deploy/Stop calls validates as that
\* key does: at any time both are accepted or both are expired, and while
\* accepted they report the same created_at and the same expires_at.
C5_TimestampsKept ==
    \A e \in issued :
        LET a == decode_novel_key(e.key, e.secret, now)
            b == decode_novel_key(e.root, e.secret, now)
        IN  /\ a.error = b.error
            /\ a.error \in {"", KeyExpired}
            /\ a.error = "" => (a.created_at = b.created_at /\ a.expires_at = b.expires_at)

C5_Witness ==
    /\ res.op \in Toggles /\ res.out.error = ""
    /\ \E e \in issued :
          /\ e.key = res.out.key /\ res.key # e.root /\ res.out.key # e.root
          /\ EntryOf(res.key).agent_deployed # e.agent_deployed
          /\ decode_novel_key(e.key, e.secret, now).error = ""

\* C6: a key returned by set_agent_deployed validates with agent_deployed
\* true and one returned by set_agent_down with agent_deployed false,
\* whatever the flag of the key given; when the flag was already that, the
\* new key validates to the very fields of the key given.
C6_FlagForced ==
    (res.op \in Toggles /\ res.out.error = "") =>
        LET a == decode_novel_key(res.key, res.secret, res.at)
            b == decode_novel_key(res.out.key, res.secret, res.at)
        IN  /\ b.error = ""
            /\ b.agent_deployed = (res.op = "deploy")
            /\ a.agent_deployed = b.agent_deployed => b = a

C6_Witness ==
    /\ res.op = "deploy" /\ res.out.error = "" /\ res.out.key # res.key
    /\ decode_novel_key(res.key, res.secret, res.at).agent_deployed
    /\ decode_novel_key(res.out.key, res.secret, res.at).agent_deployed

\* C7: a key made by create_novel_activation_key at time t validates, at
\* every time from t to t + ONE_YEAR_SECONDS inclusive, to created_at = t,
\* expires_at = t + ONE_YEAR_SECONDS and agent_deployed = false, and is
\* rejected as expired at every later time.
C7_FreshForAYear ==
    res.op = "create" =>
        LET v == decode_novel_key(res.out.key, res.secret, now)
        IN  /\ res.at <= now
            /\ IF now <= res.at + ONE_YEAR_SECONDS
               THEN v = [error |-> "", created_at |-> res.at,
                         expires_at |-> res.at + ONE_YEAR_SECONDS, agent_deployed |-> FALSE]
               ELSE v = [error |-> KeyExpired]

C7_Witness ==
    /\ res.op = "create" /\ now = res.at + ONE_YEAR_SECONDS
    /\ decode_novel_key(res.out.key, res.secret, now).error = ""

\* The shape of a key string but for its length: a separator after every
\* 5 characters and nowhere else, 35 other characters, the first 32 of them
\* base-32 digits that decode to 20 bytes (a 10-byte record, then its
\* 10-byte tag), the last 3 the suffix.
Shaped(key, secret) ==
    LET raw   == StripDashes(key)
        bytes == b32decode(Slice(raw, 0, 32))
    IN  /\ \A j \in 1..Len(key) : (key[j] = "-") <=> (j % (GROUP + 1) = 0)
        /\ Len(raw) = 35
        /\ \A j \in 1..32 : raw[j] \in B32Chars
        /\ bytes.error = "" /\ Len(bytes.bytes) = 20
        /\ Slice(bytes.bytes, 10, 20) = _compute_partial_signature(Slice(bytes.bytes, 0, 10), secret)
        /\ Slice(raw, 32, 35) = SUFFIX

\* C8 as stated: every key made is of that shape and 39 characters long.
C8_Shape39 == \A e \in issued : Shaped(e.key, e.secret) /\ Len(e.key) = 39

\* C8, amended: every key made by create_novel_activation_key,
\* set_agent_deployed or set_agent_down is of that shape and 41 characters
\* long (7 groups of 5 and 6 separators).
C8_Shape41 == \A e \in issued : Shaped(e.key, e.secret) /\ Len(e.key) = 41

C8_Witness ==
    /\ res.op = "down" /\ res.out.error = ""
    /\ \E e \in issued : e.agent_deployed
    /\ \E e \in issued : e.key = e.root

\* C9: every key ever made, superseded by a Deploy/Stop or not, validates
\* under its secret to the fields it was made for at every time up to and
\* including its expires_at.
C9_OldKeysStayValid ==
    \A e \in issued :
        now <= e.expires_at => decode_novel_key(e.key, e.secret, now) = Fields(e)

C9_Witness ==
    /\ res.op = "deploy" /\ res.out.error = "" /\ res.out.key # res.key
    /\ res.at < now /\ now = EntryOf(res.key).expires_at
    /\ ~ EntryOf(res.key).agent_deployed
    /\ decode_novel_key(res.key, res.secret, now) = Fields(EntryOf(res.key))
    /\ decode_novel_key(res.out.key, res.secret, now).agent_deployed

====
